---- MODULE Spec2Model ----
(***************************************************************************)
(* Model of the family-photos application: the family_members / profiles   *)
(* tables with the invite, remove, list, auth-callback and signup          *)
(* handlers, and the reactions table with addOrUpdateReaction /            *)
(* removeReaction under the two row-level policy drafts.                   *)
(*                                                                         *)
(* Every handler is an operator that computes, from the tables as they     *)
(* are, what the handler answers and what it writes; the action of the     *)
(* handler applies that result to the tables.                              *)
(*                                                                         *)
(* SpecFamily    - the membership handlers (invite is split at its two     *)
(*                 data-layer round trips so that requests interleave).    *)
(* SpecReactions - the reaction calls (split at read / write).             *)
(* SpecComments  - addComment / updateComment / deleteComment.             *)
(* SpecAlbums    - albums, their share tokens and getAlbumByToken.         *)
(* SpecGesture   - the two gesture hooks, useClickHandler and useDoubleTap, *)
(*                 with their timers and the passing of time.              *)
(***************************************************************************)
EXTENDS Integers, Sequences, FiniteSets, Bags, TLC

\* family_members, profiles, reactions : the tables, as sets of rows
\* nextId, rnextId : the ids the next inserted rows get
\* now             : the time stamp the next accepted invitation gets
\* req             : invite requests between their check and their insert
\* call            : addOrUpdateReaction calls between their read and write
\* policyDraft     : which draft of the row-level policies is deployed
\* comments, cnextId : the comments table and the id of its next row
\* albums, anextId : the albums table and the next fresh id / share token
\* hook            : the gesture hook the mounted view uses
\* mounted         : the view that uses the hook is on the page
\* ch              : the refs of useClickHandler
\* dt              : the refs of useDoubleTap
\* strayed         : the finger on the screen has been further from its start
\*                   point than the threshold (a fact about the touch, which
\*                   the hook may or may not have noticed)
\* tapAt           : where on the screen the last counted click or tap was
\* waiting         : counted clicks and taps that have had no callback yet
\* ui              : what one browser tab shows: the session's user, the open
\*                   photo, ReactionButton.userReaction, PhotoModal.comments,
\*                   and whether the last mutation it asked for failed
VARIABLES family_members, profiles, nextId, now, req,
          reactions, rnextId, call, policyDraft,
          comments, cnextId,
          hook, mounted, ch, dt, strayed, tapAt, waiting,
          albums, anextId,
          ui

famVars == <<family_members, profiles, nextId, now, req>>
reactVars == <<reactions, rnextId, call, policyDraft>>
commentVars == <<comments, cnextId>>
gestureVars == <<hook, mounted, ch, dt, strayed, tapAt, waiting>>
albumVars == <<albums, anextId>>
clientVars == <<ui>>
vars == <<family_members, profiles, nextId, now, req,
          reactions, rnextId, call, policyDraft,
          comments, cnextId,
          hook, mounted, ch, dt, strayed, tapAt, waiting,
          albums, anextId,
          ui>>

-----------------------------------------------------------------------------
(* Bounds *)

\* highest family_members id the invite route may hand out
MaxId == 4
\* number of invite requests that can be in flight at once
MaxReq == 2
\* number of reaction calls that can be in flight at once
MaxCall == 2
\* highest reactions id
MaxRid == 2
\* highest comments id
MaxCid == 2
\* clicks and taps that can be waiting for their callback
MaxWaiting == 3
\* highest album id or share token
MaxAid == 2
\* latest time the clock of the album specification reaches
MaxNow == 3
\* milliseconds after which the hooks' time stamps count as long ago
MaxElapsed == 500
\* taps useDoubleTap counts before its timer runs
MaxTaps == 3

-----------------------------------------------------------------------------
(* Values *)

NULL == "null"
NoUser == "anon"
NullTime == 0

EmailA == <<"a", "@", "x", ".", "y">>
EmailB == <<"b", "@", "x", ".", "y">>

\* request bodies sent to POST /api/family/invite
InviteInputs ==
  { EmailA, <<"B", "@", "x", ".", "y">>, <<"a", "@", "x">>, <<>> }

\* addresses the auth service holds an identity for (it stores them lowercased)
AuthEmails == {EmailA, EmailB}

UserOf(e) == IF e = EmailA THEN "ua" ELSE "ub"

EmailOf(u) == IF u = "ua" THEN EmailA ELSE EmailB

Identities == {"ua", "ub"}

\* every identity of the auth service can hold a session; "anon" has none
Callers == Identities \cup {NoUser}

-----------------------------------------------------------------------------
(* Pure helpers *)

LowerChar(c) == IF c = "A" THEN "a" ELSE IF c = "B" THEN "b" ELSE c

toLowerCase(s) == [i \in DOMAIN s |-> LowerChar(s[i])]

IsSpace(c) == c = " "

\* /^[^\s@]+@[^\s@]+\.[^\s@]+$/ : no white space, a single "@" that is not
\* first, and after it a "." with at least one character on both sides
emailRegex(s) ==
  /\ \A i \in DOMAIN s : ~IsSpace(s[i])
  /\ \E i \in DOMAIN s :
       /\ s[i] = "@"
       /\ i > 1
       /\ \A j \in DOMAIN s : s[j] = "@" => j = i
       /\ \E k \in DOMAIN s : s[k] = "." /\ k > i + 1 /\ k < Len(s)

\* .single(): a row when the filter selects exactly one row, the PGRST116
\* error when it selects none or more than one
single(S) ==
  IF Cardinality(S) = 1 THEN [error |-> "none", rows |-> S]
  ELSE [error |-> "PGRST116", rows |-> {}]

TheRow(S) == CHOOSE x \in S : TRUE

\* .eq('user_id', user.id).eq('status', 'active').single() without error
isActiveMember(u) ==
  single({m \in family_members : m.user_id = u /\ m.status = "active"}).error = "none"

\* what a handler answers: HTTP status, the message, and what became of the
\* invitation e-mail ("none" when the handler never reached the dispatch)
Answer(s, b, m) == [status |-> s, body |-> b, mail |-> m]

\* no answer yet: the handler goes on to its next statement
Proceed == Answer(0, "Proceed", "none")

\* an invite request that has passed the existence check and not yet inserted
Checked(caller, email) == [caller |-> caller, email |-> email]

-----------------------------------------------------------------------------
(* POST /api/family/invite *)

\* .eq('email', email.toLowerCase()).single()
existingMember(email) ==
  single({m \in family_members : m.email = toLowerCase(email)})

InviteCheckAnswer_validateFirst(caller, email) ==
  IF email = <<>> \/ ~emailRegex(email) THEN Answer(400, "InvalidEmail", "none")
  ELSE IF caller = NoUser THEN Answer(401, "Unauthorized", "none")
  ELSE IF ~isActiveMember(caller) THEN Answer(403, "AccessDenied", "none")
  ELSE Proceed

\* the handler up to and including the existence check
InviteCheckAnswer(caller, email) ==
  LET ex == existingMember(email) IN
  IF caller = NoUser THEN Answer(401, "Unauthorized", "none")
  ELSE IF ~isActiveMember(caller) THEN Answer(403, "AccessDenied", "none")
  ELSE IF email = <<>> \/ ~emailRegex(email) THEN Answer(400, "InvalidEmail", "none")
  ELSE IF ex.error = "none" /\ TheRow(ex.rows).status = "invited"
    THEN Answer(400, "AlreadyInvited", "none")
  ELSE IF ex.error = "none" /\ TheRow(ex.rows).status = "active"
    THEN Answer(400, "AlreadyActive", "none")
  ELSE Proceed

InviteCheck(caller, email) ==
  /\ BagCardinality(req) < MaxReq
  /\ req' = IF InviteCheckAnswer(caller, email) = Proceed
              THEN req (+) SetToBag({Checked(caller, email)})
              ELSE req
  /\ UNCHANGED <<family_members, profiles, nextId, now>>
  /\ UNCHANGED <<reactVars, commentVars, gestureVars, albumVars, clientVars>>

NewInvitation_rawEmail(id, email, caller) ==
  [id |-> id, email |-> email, status |-> "invited",
   user_id |-> NULL, invited_by |-> caller,
   accepted_at |-> NullTime, invitation_token |-> id]

\* .insert({email: email.toLowerCase(), status: 'invited', invited_by: user.id,
\* user_id: null}); id and invitation_token are the table's fresh defaults
NewInvitation(id, email, caller) ==
  [id |-> id, email |-> toLowerCase(email), status |-> "invited",
   user_id |-> NULL, invited_by |-> caller,
   accepted_at |-> NullTime, invitation_token |-> id]

\* what can go wrong after the check: the insert fails, the e-mail provider
\* answers with an error, the e-mail call throws, or RESEND_API_KEY is not set
InviteFaults == {"none", "insert", "mail", "throw", "nokey"}

\* the body of the 201 answer: id, email, invitation_token and status of the
\* inserted row
InvitationResponse(invitation) ==
  [id |-> invitation.id, email |-> invitation.email,
   invitation_token |-> invitation.invitation_token, status |-> invitation.status]

InviteInsertResult_mailFatal(rq, fault) ==
  IF fault = "none"
    THEN [answer |-> Answer(201, "Invited", "sent"),
          summary |-> InvitationResponse(NewInvitation(nextId, rq.email, rq.caller)),
          rows |-> family_members \cup {NewInvitation(nextId, rq.email, rq.caller)}]
    ELSE [answer |-> Answer(500, "CreateFailed", "none"), summary |-> NULL,
          rows |-> family_members]

\* the insert, the best-effort e-mail and the answer
InviteInsertResult(rq, fault) ==
  LET invitation == NewInvitation(nextId, rq.email, rq.caller) IN
  IF fault = "insert"
    THEN [answer |-> Answer(500, "CreateFailed", "none"), summary |-> NULL,
          rows |-> family_members]
    ELSE [answer |-> Answer(201, "Invited",
                       IF fault = "none" THEN "sent"
                       ELSE IF fault = "nokey" THEN "nokey" ELSE "failed"),
          summary |-> InvitationResponse(invitation),
          rows |-> family_members \cup {invitation}]

InviteInsert(rq, fault) ==
  /\ BagIn(rq, req)
  /\ nextId <= MaxId
  /\ family_members' = InviteInsertResult(rq, fault).rows
  /\ nextId' = IF fault = "insert" THEN nextId ELSE nextId + 1
  /\ req' = req (-) SetToBag({rq})
  /\ UNCHANGED <<profiles, now>>
  /\ UNCHANGED <<reactVars, commentVars, gestureVars, albumVars, clientVars>>

-----------------------------------------------------------------------------
(* DELETE /api/family/[id] *)

\* memberToRemove.user_id === user.id
isSelf_never(member, caller) == FALSE

isSelf(member, caller) == member.user_id = caller

DeleteResult(caller, id, dbOk) ==
  LET target == single({m \in family_members : m.id = id})
      refuse(s, b) == [answer |-> Answer(s, b, "none"), rows |-> family_members]
  IN
  IF caller = NoUser THEN refuse(401, "Unauthorized")
  ELSE IF ~isActiveMember(caller) THEN refuse(403, "AccessDenied")
  ELSE IF target.error /= "none" THEN refuse(404, "NotFound")
  ELSE IF isSelf(TheRow(target.rows), caller) THEN refuse(400, "SelfRemoval")
  ELSE IF ~dbOk THEN refuse(500, "RemoveFailed")
  ELSE [answer |-> Answer(200, IF TheRow(target.rows).status = "invited"
                                 THEN "InvitationCancelled" ELSE "MemberRemoved",
                          "none"),
        rows |-> {m \in family_members : m.id /= id}]

Delete(caller, id, dbOk) ==
  /\ family_members' = DeleteResult(caller, id, dbOk).rows
  /\ UNCHANGED <<profiles, nextId, now, req>>
  /\ UNCHANGED <<reactVars, commentVars, gestureVars, albumVars, clientVars>>

-----------------------------------------------------------------------------
(* GET /api/family *)

FamilyGetAnswer(caller) ==
  IF caller = NoUser THEN Answer(401, "Unauthorized", "none")
  ELSE IF ~isActiveMember(caller) THEN Answer(403, "AccessDenied", "none")
  ELSE Answer(200, "Members", "none")

\* a read: it answers and leaves every table as it is
FamilyGet(caller) ==
  /\ FamilyGetAnswer(caller).status \in {200, 401, 403}
  /\ UNCHANGED vars

-----------------------------------------------------------------------------
(* acceptOnLogin: GET /auth/callback and POST signup *)

Activate_noStamp(id, u, t) ==
  { IF m.id = id
      THEN [m EXCEPT !.user_id = u, !.status = "active"]
      ELSE m : m \in family_members }

\* .update({user_id, status: 'active', accepted_at}).eq('id', id)
Activate(id, u, t) ==
  { IF m.id = id
      THEN [m EXCEPT !.user_id = u, !.status = "active", !.accepted_at = t]
      ELSE m : m \in family_members }

\* .from('profiles').upsert({id, email, ...}): one row per id
Upsert(u, e) ==
  {p \in profiles : p.id /= u} \cup {[id |-> u, email |-> e]}

\* .eq('email', email).eq('status', 'invited').single()
invitationFor(e) ==
  single({m \in family_members : m.email = e /\ m.status = "invited"})

\* the callback after the session exchange succeeded for address e; the
\* errors of the update and of the upsert are not looked at
CallbackResult(e, updateOk, upsertOk) ==
  LET u == UserOf(e)
      invitation == invitationFor(e)
      found == invitation.error = "none"
  IN
  [answer |-> Answer(302, "Redirect", "none"),
   found |-> found,
   rows |-> IF found /\ updateOk
              THEN Activate(TheRow(invitation.rows).id, u, now)
              ELSE family_members,
   profiles |-> IF found /\ upsertOk THEN Upsert(u, e) ELSE profiles]

AuthCallback(e, updateOk, upsertOk) ==
  LET res == CallbackResult(e, updateOk, upsertOk) IN
  /\ family_members' = res.rows
  /\ profiles' = res.profiles
  /\ now' = IF res.rows /= family_members THEN now + 1 ELSE now
  /\ UNCHANGED <<nextId, req>>
  /\ UNCHANGED <<reactVars, commentVars, gestureVars, albumVars, clientVars>>

\* the signup route: a failed update ends the request, a failed upsert does not
SignupResult(caller, updateOk, upsertOk) ==
  LET e == EmailOf(caller)
      invitation == invitationFor(e)
      refuse(s, b) == [answer |-> Answer(s, b, "none"), found |-> FALSE,
                       rows |-> family_members, profiles |-> profiles]
  IN
  IF caller = NoUser THEN refuse(401, "Unauthorized")
  ELSE IF invitation.error /= "none" THEN refuse(403, "NoInvitation")
  ELSE IF ~updateOk
    THEN [answer |-> Answer(500, "ActivateFailed", "none"), found |-> TRUE,
          rows |-> family_members, profiles |-> profiles]
  ELSE [answer |-> Answer(200, "Welcome", "none"), found |-> TRUE,
        rows |-> Activate(TheRow(invitation.rows).id, caller, now),
        profiles |-> IF upsertOk THEN Upsert(caller, e) ELSE profiles]

Signup(caller, updateOk, upsertOk) ==
  LET res == SignupResult(caller, updateOk, upsertOk) IN
  /\ family_members' = res.rows
  /\ profiles' = res.profiles
  /\ now' = IF res.rows /= family_members THEN now + 1 ELSE now
  /\ UNCHANGED <<nextId, req>>
  /\ UNCHANGED <<reactVars, commentVars, gestureVars, albumVars, clientVars>>

-----------------------------------------------------------------------------
(* signInWithMagicLink (src/lib/auth.ts) *)

\* is_email_invited(user_email): EXISTS (... WHERE email = user_email AND
\* status IN ('invited', 'active'))
is_email_invited_anyStatus(user_email) ==
  \E m \in family_members : m.email = user_email

is_email_invited(user_email) ==
  \E m \in family_members :
    m.email = user_email /\ m.status \in {"invited", "active"}

\* what can go wrong: the rpc fails, or signInWithOtp fails
SignInFaults == {"none", "rpc", "otp"}

\* link is the address the magic link is sent to, empty when none is sent
SignInResult(ok, code, link) == [success |-> ok, code |-> code, link |-> link]

signInWithMagicLink(email, fault) ==
  IF fault = "rpc" THEN SignInResult(FALSE, "VerifyFailed", <<>>)
  ELSE IF ~is_email_invited(toLowerCase(email))
    THEN SignInResult(FALSE, "NOT_INVITED", <<>>)
  ELSE IF fault = "otp" THEN SignInResult(FALSE, "SendFailed", <<>>)
  ELSE SignInResult(TRUE, "none", toLowerCase(email))

\* the sign-in form: it reads family_members and writes no table
SignIn(email, fault) ==
  /\ signInWithMagicLink(email, fault).success \in BOOLEAN
  /\ UNCHANGED vars

-----------------------------------------------------------------------------
(* Reactions: src/lib/reactions.ts against the reactions table and its   *)
(* row-level policies.  The statements run as the data layer executes    *)
(* them; they fail only where a policy or a constraint rejects them.     *)

Photos == {"p1", "p2"}

\* two of COMMON_EMOJIS
Emojis == {"heart", "laugh"}

\* "ub" holds a session without being a member; "anon" holds none
ReactUsers == {"ua", "ub", NoUser}

CallIds == 1..MaxCall

NoReaction == [id |-> 0, emoji |-> "none"]

IdleCall == [pc |-> "idle", user |-> NoUser, photo |-> "p1", emoji |-> "heart",
             existing |-> NoReaction]

\* EXISTS (SELECT 1 FROM family_members fm WHERE fm.user_id = auth.uid()
\*         AND fm.status = 'active')
rlsActive(u) ==
  \E m \in family_members : m.user_id = u /\ m.status = "active"

\* the policy drafts: "restrictive" requires an active member, "simplified"
\* only an authenticated caller
rlsMember(u) ==
  u /= NoUser /\ (policyDraft = "restrictive" => rlsActive(u))

\* FOR SELECT TO authenticated USING (...)
reactionsSelect(u) == rlsMember(u)

\* FOR INSERT / UPDATE / DELETE TO authenticated: auth.uid() = user_id AND (...)
reactionsWrite(u, owner) == rlsMember(u) /\ u = owner

RowsOf(R, p, u) == {x \in R : x.photo_id = p /\ x.user_id = u}

\* what a call gives back and the table it leaves: outcome is "set" (the
\* stored row is returned), "REACTION_REMOVED", "removed" (the void return of
\* removeReaction), "error" (the data layer's error is thrown) or
\* "NotAuthenticated"
Outcome(o, R) == [outcome |-> o, rows |-> R]

ReadExisting_none(R, u, p) == NoReaction

\* .select('*').eq('photo_id', photoId).eq('user_id', user.id).single()
ReadExisting(R, u, p) ==
  LET found == single({x \in RowsOf(R, p, u) : reactionsSelect(u)}) IN
  IF found.error = "none"
    THEN [id |-> TheRow(found.rows).id, emoji |-> TheRow(found.rows).emoji]
    ELSE NoReaction

\* .delete().eq('photo_id', photoId).eq('user_id', user.id)
DeleteReaction(R, p, u) ==
  {x \in R : ~(x.photo_id = p /\ x.user_id = u /\ reactionsWrite(u, x.user_id))}

\* .update({emoji}).eq('id', id)
UpdateReaction_anyRow(R, id, u, e) ==
  {IF reactionsWrite(u, x.user_id) THEN [x EXCEPT !.emoji = e] ELSE x : x \in R}

UpdateReaction(R, id, u, e) ==
  {IF x.id = id /\ reactionsWrite(u, x.user_id) THEN [x EXCEPT !.emoji = e] ELSE x :
     x \in R}

\* the insert passes the policy and UNIQUE(photo_id, user_id)
InsertAllowed_noUnique(R, p, u) == reactionsWrite(u, u)

InsertAllowed(R, p, u) == reactionsWrite(u, u) /\ RowsOf(R, p, u) = {}

\* existingReaction.emoji === emoji
sameEmoji_never(existing, e) == FALSE

sameEmoji(existing, e) == existing.emoji = e

\* addOrUpdateReaction from the branch on existingReaction to its return;
\* rid is the id the table gives a new row
WriteResult(R, rid, u, p, e, existing) ==
  IF existing.id /= 0
    THEN IF sameEmoji(existing, e)
           THEN Outcome("REACTION_REMOVED", DeleteReaction(R, p, u))
         ELSE IF single({x \in R : x.id = existing.id
                                     /\ reactionsWrite(u, x.user_id)}).error = "none"
           THEN Outcome("set", UpdateReaction(R, existing.id, u, e))
         ELSE Outcome("error", R)
  ELSE IF InsertAllowed(R, p, u)
    THEN Outcome("set", R \cup {[id |-> rid, photo_id |-> p, user_id |-> u,
                                 emoji |-> e]})
  ELSE Outcome("error", R)

\* one whole call with nothing running between its read and its write
addOrUpdateReaction(R, rid, u, p, e) ==
  IF u = NoUser THEN Outcome("NotAuthenticated", R)
  ELSE WriteResult(R, rid, u, p, e, ReadExisting(R, u, p))

\* removeReaction called on its own
removeReaction(R, u, p) ==
  IF u = NoUser THEN Outcome("NotAuthenticated", R)
  ELSE Outcome("removed", DeleteReaction(R, p, u))

\* addOrUpdateReaction up to and including the read of the existing reaction
ReactRead(c, u, p, e) ==
  /\ call[c].pc = "idle"
  /\ \A d \in CallIds : d < c => call[d].pc /= "idle"
  /\ \A d \in CallIds : call[d].pc = "read" => call[d].photo = p /\ call[d].user = u
  /\ call' = IF u = NoUser THEN call
             ELSE [call EXCEPT ![c] =
                     [pc |-> "read", user |-> u, photo |-> p, emoji |-> e,
                      existing |-> ReadExisting(reactions, u, p)]]
  /\ UNCHANGED <<reactions, rnextId, policyDraft>>
  /\ UNCHANGED <<famVars, commentVars, gestureVars, albumVars, clientVars>>

ReactWrite(c) ==
  LET k == call[c]
      res == WriteResult(reactions, rnextId, k.user, k.photo, k.emoji, k.existing)
  IN
  /\ k.pc = "read"
  /\ k.existing.id = 0 => rnextId <= MaxRid
  /\ reactions' = res.rows
  /\ rnextId' = IF k.existing.id = 0 /\ res.outcome = "set" THEN rnextId + 1
                ELSE rnextId
  /\ call' = [call EXCEPT ![c] = IdleCall]
  /\ UNCHANGED policyDraft
  /\ UNCHANGED <<famVars, commentVars, gestureVars, albumVars, clientVars>>

RemoveReaction(u, p) ==
  /\ reactions' = removeReaction(reactions, u, p).rows
  /\ UNCHANGED <<rnextId, call, policyDraft>>
  /\ UNCHANGED <<famVars, commentVars, gestureVars, albumVars, clientVars>>

-----------------------------------------------------------------------------
(* hooks/useClickHandler.ts and hooks/useDoubleTap.ts                        *)
(*                                                                           *)
(* Time is kept as the milliseconds that have passed since the hook last     *)
(* stored Date.now() (firstClickTimeRef, lastTapRef.time); the hook arms its *)
(* timer in the same handler run, so the timer is due once that time has     *)
(* reached the delay.  A due timer callback and a new event are run in       *)
(* either order.                                                             *)

\* delay = 300, touchMoveThreshold = 10 (useClickHandler); delay = 300,
\* threshold = 10 (useDoubleTap)
delay == 300
touchMoveThreshold == 10
threshold == 10

Hooks == {"useClickHandler", "useDoubleTap"}

\* how far time moves between two events
Steps == {100, 150}

\* clientX / clientY of an event, and the offsets of a moving finger from
\* its start point
Points == {<<0, 0>>, <<6, 8>>, <<15, 0>>}

\* Math.sqrt(dx * dx + dy * dy) is compared through its square
Square(n) == n * n
distance2(p, q) == Square(p[1] - q[1]) + Square(p[2] - q[2])

NoTimer == "null"
\* a ref that holds an object or null is a sequence of at most one record
NoTouch == <<>>
NoTap == <<>>

\* a callback fired by a handler run
Fired == {"none", "single", "double"}

Ran(h, f) == [refs |-> h, fired |-> f]

\* useRef(null), useRef(0), useRef(0), useRef(null), useRef(false);
\* firstClickTime 0 is the epoch, a long time ago
ClickHandlerAtMount ==
  [clickCount |-> 0, clickTimeout |-> NoTimer, firstClickTime |-> MaxElapsed,
   touchInfo |-> NoTouch, scrolling |-> FALSE]

\* useRef(0), useRef(null), useRef(null)
DoubleTapAtMount ==
  [clickCount |-> 0, clickTimer |-> FALSE, lastTap |-> NoTap]

inWindow_never(timeDiff) == FALSE

\* timeDiff <= delay
inWindow(timeDiff) == timeDiff <= delay

\* clickCountRef.current += 1 and the three branches on it; the timer armed
\* by the first click checks the count when it runs ("ifOne"), the timers
\* armed by the other two branches do not ("always")
countClick(h) ==
  LET n == h.clickCount + 1 IN
  IF n = 1
    THEN Ran([h EXCEPT !.clickCount = 1, !.firstClickTime = 0,
                       !.clickTimeout = "ifOne"], "none")
  ELSE IF n = 2 /\ inWindow(h.firstClickTime)
    THEN Ran([h EXCEPT !.clickCount = 0, !.clickTimeout = NoTimer], "double")
  ELSE Ran([h EXCEPT !.clickCount = 1, !.firstClickTime = 0,
                     !.clickTimeout = "always"], "none")

handleClick(h) == countClick(h)

\* if (e.touches.length === 1): a new touchInfo, scrolling = false
handleTouchStart(h, touches) ==
  IF touches = 1
    THEN [h EXCEPT !.touchInfo = <<[moved |-> FALSE]>>, !.scrolling = FALSE]
    ELSE h

\* totalMovement > touchMoveThreshold
movedTooFar(delta) == distance2(delta, <<0, 0>>) > Square(touchMoveThreshold)

\* if (!touchInfoRef.current || e.touches.length !== 1) return
handleTouchMove(h, touches, delta) ==
  IF h.touchInfo = NoTouch \/ touches /= 1 THEN h
  ELSE IF movedTooFar(delta)
    THEN [h EXCEPT !.touchInfo = <<[moved |-> TRUE]>>, !.scrolling = TRUE]
    ELSE h

handleTouchEnd(h) ==
  IF h.scrolling \/ h.touchInfo = NoTouch
    THEN Ran([h EXCEPT !.touchInfo = NoTouch], "none")
  ELSE IF h.touchInfo[1].moved
    THEN Ran([h EXCEPT !.touchInfo = NoTouch], "none")
  ELSE Ran([countClick(h).refs EXCEPT !.touchInfo = NoTouch], countClick(h).fired)

clickTimeoutCallback_keepsCount(h) ==
  Ran([h EXCEPT !.clickTimeout = NoTimer],
      IF h.clickTimeout = "always" \/ h.clickCount = 1 THEN "single" ELSE "none")

\* the callback given to setTimeout
clickTimeoutCallback(h) ==
  Ran([h EXCEPT !.clickCount = 0, !.clickTimeout = NoTimer],
      IF h.clickTimeout = "always" \/ h.clickCount = 1 THEN "single" ELSE "none")

cleanup(h) ==
  [h EXCEPT !.clickTimeout = NoTimer, !.clickCount = 0,
            !.touchInfo = NoTouch, !.scrolling = FALSE]

\* touches[0] if a finger is still on the screen, clientX / clientY of a
\* mouse event, {x: 0, y: 0} for a touch event with no finger left
getEventCoordinates(event) ==
  IF event.type = "touchend"
    THEN (IF event.touches /= <<>> THEN event.touches[1] ELSE <<0, 0>>)
    ELSE event.at

\* timeDiff < delay && distance < threshold
isDoubleTap(t, coords) ==
  /\ t.lastTap /= NoTap
  /\ t.lastTap[1].time < delay
  /\ distance2(coords, t.lastTap[1].at) < Square(threshold)

handleTap(t, event) ==
  LET coords == getEventCoordinates(event) IN
  IF isDoubleTap(t, coords)
    THEN Ran([clickCount |-> 0, clickTimer |-> FALSE, lastTap |-> NoTap], "double")
    ELSE Ran([clickCount |-> t.clickCount + 1, clickTimer |-> TRUE,
              lastTap |-> <<[at |-> coords, time |-> 0]>>], "none")

clickTimerCallback(t) ==
  Ran(DoubleTapAtMount, IF t.clickCount = 1 THEN "single" ELSE "none")

\* the events the view hands to useDoubleTap
TapEvents ==
  [type : {"click"}, at : Points, touches : {<<>>}]
    \cup [type : {"touchend"}, at : Points, touches : {<<>>} \cup {<<p>> : p \in Points}]

\* the clicks or taps a callback answers: a double answers the pair
Answered(f) == IF f = "double" THEN 2 ELSE IF f = "single" THEN 1 ELSE 0

\* time passes
Later(t, d) == IF t + d > MaxElapsed THEN MaxElapsed ELSE t + d

InitGestureIdle ==
  /\ hook = "useClickHandler"
  /\ mounted = TRUE
  /\ ch = ClickHandlerAtMount
  /\ dt = DoubleTapAtMount
  /\ strayed = FALSE
  /\ tapAt = <<0, 0>>
  /\ waiting = 0

InitAlbumsIdle ==
  /\ albums = {}
  /\ anextId = 1

InitCommentsIdle ==
  /\ comments = {}
  /\ cnextId = 1

InitReactIdle ==
  /\ reactions = {}
  /\ rnextId = 1
  /\ call = [c \in CallIds |-> IdleCall]

\* a tab with nobody signed in and nothing loaded
NoTab == [user |-> NoUser, photo |-> "p1", userReaction |-> NoReaction,
          comments |-> {}, failed |-> FALSE]

InitClientIdle == ui = NoTab

\* the first member has accepted; "ub" holds a session without a membership
InitReactions ==
  /\ InitClientIdle
  /\ family_members = {[id |-> 1, email |-> EmailA, status |-> "active",
                        user_id |-> "ua", invited_by |-> NULL,
                        accepted_at |-> 2, invitation_token |-> 1]}
  /\ profiles = {[id |-> "ua", email |-> EmailA]}
  /\ nextId = 3
  /\ now = 3
  /\ req = EmptyBag
  /\ InitReactIdle
  /\ policyDraft \in {"restrictive", "simplified"}
  /\ InitCommentsIdle
  /\ InitGestureIdle
  /\ InitAlbumsIdle

NextReactions ==
  \/ \E c \in CallIds, u \in ReactUsers, p \in Photos, e \in Emojis : ReactRead(c, u, p, e)
  \/ \E c \in CallIds : ReactWrite(c)
  \/ \E u \in ReactUsers, p \in Photos : RemoveReaction(u, p)

SpecReactions == InitReactions /\ [][NextReactions]_vars

-----------------------------------------------------------------------------
(* GET /api/debug-invite : "a simple insert without auth requirements"       *)

\* family_members: INSERT / UPDATE / DELETE for active members in the
\* restrictive draft, row level security switched off in the simplified one
familyMembersWrite(u) ==
  policyDraft = "simplified" \/ (u /= NoUser /\ rlsActive(u))

\* `test-${Date.now()}@example.com`
testEmail(t) ==
  <<"t", "e", "s", "t", "-", ToString(t), "@",
    "e", "x", "a", "m", "p", "l", "e", ".", "c", "o", "m">>

\* .insert({email: testEmail, status: 'invited', invited_by: null,
\* user_id: null}) under the caller's session; no getUser(), no member check
DebugInsertResult(caller, dbOk) ==
  LET row == [id |-> nextId, email |-> testEmail(now), status |-> "invited",
              user_id |-> NULL, invited_by |-> NULL,
              accepted_at |-> NullTime, invitation_token |-> nextId] IN
  IF dbOk /\ familyMembersWrite(caller)
    THEN [success |-> TRUE, rows |-> family_members \cup {row}]
    ELSE [success |-> FALSE, rows |-> family_members]

DebugInsert(caller, dbOk) ==
  /\ nextId <= MaxId
  /\ family_members' = DebugInsertResult(caller, dbOk).rows
  /\ nextId' = IF DebugInsertResult(caller, dbOk).success THEN nextId + 1 ELSE nextId
  /\ UNCHANGED <<profiles, now, req>>
  /\ UNCHANGED <<reactVars, commentVars, gestureVars, albumVars, clientVars>>

-----------------------------------------------------------------------------
(* Initial membership: the set-up script seeds the first member as an        *)
(* invitation; the status column also admits the older values pending and    *)
(* inactive, which no handler writes. A row that was there before the        *)
(* invitation columns were added (status defaulted to active) got            *)
(* accepted_at as a new, empty column.                                       *)

SeedInvited == [id |-> 1, email |-> EmailA, status |-> "invited",
                user_id |-> NULL, invited_by |-> NULL,
                accepted_at |-> NullTime, invitation_token |-> 1]

SeedLegacy(st) == [id |-> 2, email |-> EmailB, status |-> st,
                   user_id |-> "ub", invited_by |-> NULL,
                   accepted_at |-> NullTime, invitation_token |-> 2]

InitFamily ==
  /\ InitClientIdle
  /\ \E legacy \in {"none", "inactive", "pending", "active"} :
       family_members =
         {SeedInvited} \cup (IF legacy = "none" THEN {} ELSE {SeedLegacy(legacy)})
  /\ profiles = {}
  /\ nextId = 3
  /\ now = 2
  /\ req = EmptyBag
  /\ InitReactIdle
  /\ policyDraft = "simplified"
  /\ InitCommentsIdle
  /\ InitGestureIdle
  /\ InitAlbumsIdle

NextFamily ==
  \/ \E c \in Callers, e \in InviteInputs : InviteCheck(c, e)
  \/ \E c \in Identities, e \in InviteInputs, fault \in InviteFaults :
       InviteInsert(Checked(c, e), fault)
  \/ \E c \in Callers, id \in 1..MaxId, dbOk \in BOOLEAN : Delete(c, id, dbOk)
  \/ \E c \in Callers : FamilyGet(c)
  \/ \E c \in Callers, dbOk \in BOOLEAN : DebugInsert(c, dbOk)
  \/ \E e \in InviteInputs, fault \in SignInFaults : SignIn(e, fault)
  \/ \E e \in AuthEmails, a \in BOOLEAN, b \in BOOLEAN : AuthCallback(e, a, b)
  \/ \E c \in Callers, a \in BOOLEAN, b \in BOOLEAN : Signup(c, a, b)

SpecFamily == InitFamily /\ [][NextFamily]_vars

-----------------------------------------------------------------------------
(* comments.ts : addComment, updateComment, deleteComment                    *)

CommentTexts == {"hi", "yo"}

\* time stamps of a row: updated_at is the row's created_at until an update
\* writes new Date() into it
NewComment(id, p, u, text) ==
  [id |-> id, photo_id |-> p, user_id |-> u, comment_text |-> text,
   updated_at |-> "created_at"]

isAuthor_anyone(c, u) == TRUE

\* .eq('user_id', user.id) in the calls, auth.uid() = user_id in the policies
isAuthor(c, u) == c.user_id = u

\* FOR INSERT / UPDATE / DELETE TO authenticated: auth.uid() = user_id, and
\* an active member in the restrictive draft
commentsWrite(u, c) == rlsMember(u) /\ isAuthor(c, u)

CommentResult(ok, C) == [ok |-> ok, rows |-> C]

addComment(C, id, u, p, text) ==
  LET c == NewComment(id, p, u, text) IN
  IF u = NoUser THEN CommentResult(FALSE, C)
  ELSE IF ~commentsWrite(u, c) THEN CommentResult(FALSE, C)
  ELSE CommentResult(TRUE, C \cup {c})

\* .update({comment_text, updated_at}).eq('id', commentId)
\* .eq('user_id', user.id).select().single()
updateComment(C, u, id, newText) ==
  LET hit == {c \in C : c.id = id /\ isAuthor(c, u) /\ commentsWrite(u, c)}
      written == {[c EXCEPT !.comment_text = newText, !.updated_at = "new Date()"] :
                    c \in hit}
  IN IF u = NoUser THEN CommentResult(FALSE, C)
     ELSE CommentResult(Cardinality(hit) = 1, (C \ hit) \cup written)

\* .delete().eq('id', commentId).eq('user_id', user.id): no row is no error
deleteComment(C, u, id) ==
  LET hit == {c \in C : c.id = id /\ isAuthor(c, u) /\ commentsWrite(u, c)}
  IN IF u = NoUser THEN CommentResult(FALSE, C)
     ELSE CommentResult(TRUE, C \ hit)

AddComment(u, p, text) ==
  /\ cnextId <= MaxCid
  /\ comments' = addComment(comments, cnextId, u, p, text).rows
  /\ cnextId' = IF addComment(comments, cnextId, u, p, text).ok
                  THEN cnextId + 1 ELSE cnextId
  /\ UNCHANGED <<famVars, reactVars, gestureVars, albumVars, clientVars>>

UpdateComment(u, id, newText) ==
  /\ comments' = updateComment(comments, u, id, newText).rows
  /\ UNCHANGED <<cnextId, famVars, reactVars, gestureVars, albumVars, clientVars>>

DeleteComment(u, id) ==
  /\ comments' = deleteComment(comments, u, id).rows
  /\ UNCHANGED <<cnextId, famVars, reactVars, gestureVars, albumVars, clientVars>>

\* "ua" and "ub" are active members
InitComments ==
  /\ InitClientIdle
  /\ family_members =
       {[id |-> 1, email |-> EmailA, status |-> "active", user_id |-> "ua",
         invited_by |-> NULL, accepted_at |-> 2, invitation_token |-> 1],
        [id |-> 2, email |-> EmailB, status |-> "active", user_id |-> "ub",
         invited_by |-> "ua", accepted_at |-> 3, invitation_token |-> 2]}
  /\ profiles = {[id |-> "ua", email |-> EmailA], [id |-> "ub", email |-> EmailB]}
  /\ nextId = 3
  /\ now = 4
  /\ req = EmptyBag
  /\ InitReactIdle
  /\ policyDraft \in {"restrictive", "simplified"}
  /\ InitCommentsIdle
  /\ InitGestureIdle
  /\ InitAlbumsIdle

NextComments ==
  \/ \E u \in Callers, p \in Photos, text \in CommentTexts : AddComment(u, p, text)
  \/ \E u \in Callers, id \in 1..MaxCid, text \in CommentTexts :
       UpdateComment(u, id, text)
  \/ \E u \in Callers, id \in 1..MaxCid : DeleteComment(u, id)

SpecComments == InitComments /\ [][NextComments]_vars

-----------------------------------------------------------------------------
(* The gesture hooks at work: events, timer callbacks and the clock          *)

\* at is clientX / clientY of the click
Click(at) ==
  /\ hook = "useClickHandler"
  /\ mounted
  /\ waiting < MaxWaiting
  /\ ch' = handleClick(ch).refs
  /\ tapAt' = at
  /\ waiting' = waiting + 1 - Answered(handleClick(ch).fired)
  /\ UNCHANGED <<hook, mounted, dt, strayed>>
  /\ UNCHANGED <<famVars, reactVars, commentVars, albumVars, clientVars>>

\* touches is e.touches.length: 2 when another finger is on the screen
TouchStart(touches) ==
  /\ hook = "useClickHandler"
  /\ mounted
  /\ ch' = handleTouchStart(ch, touches)
  /\ strayed' = IF touches = 1 THEN FALSE ELSE strayed
  /\ UNCHANGED <<hook, mounted, dt, tapAt, waiting>>
  /\ UNCHANGED <<famVars, reactVars, commentVars, albumVars, clientVars>>

\* delta is the offset of touches[0] from the start point of the touch
TouchMove(touches, delta) ==
  /\ hook = "useClickHandler"
  /\ mounted
  /\ ch' = handleTouchMove(ch, touches, delta)
  /\ strayed' = (strayed \/ (ch.touchInfo /= NoTouch /\ movedTooFar(delta)))
  /\ UNCHANGED <<hook, mounted, dt, tapAt, waiting>>
  /\ UNCHANGED <<famVars, reactVars, commentVars, albumVars, clientVars>>

\* at is clientX / clientY of changedTouches[0]
TouchEnd(at) ==
  /\ hook = "useClickHandler"
  /\ mounted
  /\ waiting < MaxWaiting
  /\ ch' = handleTouchEnd(ch).refs
  /\ strayed' = FALSE
  /\ IF handleTouchEnd(ch).refs = [ch EXCEPT !.touchInfo = NoTouch]
       THEN UNCHANGED <<tapAt, waiting>>
       ELSE /\ tapAt' = at
            /\ waiting' = waiting + 1 - Answered(handleTouchEnd(ch).fired)
  /\ UNCHANGED <<hook, mounted, dt>>
  /\ UNCHANGED <<famVars, reactVars, commentVars, albumVars, clientVars>>

\* the timer runs its callback, not before the delay has passed
ClickTimeout ==
  /\ hook = "useClickHandler"
  /\ ch.clickTimeout /= NoTimer
  /\ ch.firstClickTime >= delay
  /\ ch' = clickTimeoutCallback(ch).refs
  /\ waiting' = waiting - Answered(clickTimeoutCallback(ch).fired)
  /\ UNCHANGED <<hook, mounted, dt, strayed, tapAt>>
  /\ UNCHANGED <<famVars, reactVars, commentVars, albumVars, clientVars>>

Cleanup ==
  /\ hook = "useClickHandler"
  /\ ch' = cleanup(ch)
  /\ strayed' = FALSE
  /\ waiting' = 0
  /\ UNCHANGED <<hook, mounted, dt, tapAt>>
  /\ UNCHANGED <<famVars, reactVars, commentVars, albumVars, clientVars>>

\* onClick and onTouchEnd of useDoubleTap
Tap(event) ==
  /\ hook = "useDoubleTap"
  /\ mounted
  /\ dt.clickCount < MaxTaps
  /\ waiting < MaxWaiting
  /\ dt' = handleTap(dt, event).refs
  /\ tapAt' = event.at
  /\ waiting' = waiting + 1 - Answered(handleTap(dt, event).fired)
  /\ UNCHANGED <<hook, mounted, ch, strayed>>
  /\ UNCHANGED <<famVars, reactVars, commentVars, albumVars, clientVars>>

ClickTimer ==
  /\ hook = "useDoubleTap"
  /\ dt.clickTimer
  /\ dt.lastTap[1].time >= delay
  /\ dt' = clickTimerCallback(dt).refs
  /\ waiting' = waiting - Answered(clickTimerCallback(dt).fired)
  /\ UNCHANGED <<hook, mounted, ch, strayed, tapAt>>
  /\ UNCHANGED <<famVars, reactVars, commentVars, albumVars, clientVars>>

\* React takes the view off the page. GalleryPhoto registers no effect that
\* calls cleanup(), and useDoubleTap returns no cleanup: the refs stay as
\* they are, and no event reaches the view any more
Unmount ==
  /\ mounted
  /\ mounted' = FALSE
  /\ UNCHANGED <<hook, ch, dt, strayed, tapAt, waiting>>
  /\ UNCHANGED <<famVars, reactVars, commentVars, albumVars, clientVars>>

\* d milliseconds pass
Advance(d) ==
  /\ ch' = [ch EXCEPT !.firstClickTime = Later(@, d)]
  /\ dt' = IF dt.lastTap = NoTap THEN dt
           ELSE [dt EXCEPT !.lastTap[1].time = Later(@, d)]
  /\ UNCHANGED <<hook, mounted, strayed, tapAt, waiting>>
  /\ UNCHANGED <<famVars, reactVars, commentVars, albumVars, clientVars>>

InitGesture ==
  /\ InitClientIdle
  /\ family_members = {SeedInvited}
  /\ profiles = {}
  /\ nextId = 3
  /\ now = 2
  /\ req = EmptyBag
  /\ InitReactIdle
  /\ policyDraft = "simplified"
  /\ InitCommentsIdle
  /\ hook \in Hooks
  /\ mounted = TRUE
  /\ ch = ClickHandlerAtMount
  /\ dt = DoubleTapAtMount
  /\ strayed = FALSE
  /\ tapAt = <<0, 0>>
  /\ waiting = 0
  /\ InitAlbumsIdle

NextGesture ==
  \/ \E at \in Points : Click(at)
  \/ \E touches \in 1..2 : TouchStart(touches)
  \/ \E touches \in 1..2, delta \in Points : TouchMove(touches, delta)
  \/ \E at \in Points : TouchEnd(at)
  \/ ClickTimeout
  \/ Cleanup
  \/ \E event \in TapEvents : Tap(event)
  \/ ClickTimer
  \/ Unmount
  \/ \E d \in Steps : Advance(d)

SpecGesture == InitGesture /\ [][NextGesture]_vars

-----------------------------------------------------------------------------
(* lib/supabase/albums.ts : albums and their share tokens                    *)

\* "Family members can view all albums" and "Public can view shared albums"
\* in the restrictive draft; "Authenticated users can view albums" in the
\* simplified draft, whose script creates no policy for the public
albumsSelect(u, a) ==
  IF policyDraft = "restrictive"
    THEN \/ (u /= NoUser /\ rlsActive(u))
         \/ (a.is_public /\ (a.expires_at = NullTime \/ a.expires_at > now))
    ELSE u /= NoUser

\* "Family members can create / update / delete": an active member in the
\* restrictive draft, the album's creator in the simplified one
albumsWrite(u, a) ==
  IF policyDraft = "restrictive"
    THEN u /= NoUser /\ rlsActive(u)
    ELSE u /= NoUser /\ u = a.created_by

isExpired_never(a, t) == FALSE

\* album.expires_at && new Date(album.expires_at) < new Date()
isExpired(a, t) == a.expires_at /= NullTime /\ a.expires_at < t

Found(a) == [album |-> <<a>>, thrown |-> FALSE]
NotFound == [album |-> <<>>, thrown |-> FALSE]
Thrown == [album |-> <<>>, thrown |-> TRUE]

\* .eq('share_token', token).eq('is_public', true).single(); PGRST116 (no
\* row) is null, any other error is thrown
getAlbumByToken(u, token, dbOk) ==
  LET hit == {a \in albums : /\ albumsSelect(u, a)
                             /\ a.share_token = token
                             /\ a.is_public}
  IN IF ~dbOk THEN Thrown
     ELSE IF Cardinality(hit) /= 1 THEN NotFound
     ELSE IF isExpired(TheRow(hit), now) THEN NotFound
     ELSE Found(TheRow(hit))

\* insert({name, description, created_by: user.id}); share_token, is_public
\* and expires_at take the column defaults
NewAlbum(id, u) ==
  [id |-> id, share_token |-> id, is_public |-> TRUE, expires_at |-> NullTime,
   created_by |-> u]

createAlbum(u) ==
  IF u /= NoUser /\ albumsWrite(u, NewAlbum(anextId, u))
    THEN [ok |-> TRUE, rows |-> albums \cup {NewAlbum(anextId, u)}]
    ELSE [ok |-> FALSE, rows |-> albums]

\* UpdateAlbumData, as far as it concerns sharing
AlbumUpdates ==
  {[is_public |-> b] : b \in BOOLEAN}
    \cup {[expires_at |-> t] : t \in {NullTime} \cup (1..MaxNow)}

Updated(a, updates) ==
  [a EXCEPT !.is_public = IF "is_public" \in DOMAIN updates
                            THEN updates.is_public ELSE @,
            !.expires_at = IF "expires_at" \in DOMAIN updates
                             THEN updates.expires_at ELSE @]

\* .update(updates).eq('id', id).select('*').single()
updateAlbum(u, id, updates) ==
  LET hit == {a \in albums : a.id = id /\ albumsWrite(u, a)}
  IN [ok |-> Cardinality(hit) = 1,
      rows |-> (albums \ hit) \cup {Updated(a, updates) : a \in hit}]

\* .delete().eq('id', id)
deleteAlbum(u, id) ==
  [ok |-> TRUE, rows |-> {a \in albums : ~(a.id = id /\ albumsWrite(u, a))}]

\* .rpc('gen_random_uuid') and .update({share_token: newToken}).eq('id', albumId)
regenerateShareToken(u, id) ==
  LET hit == {a \in albums : a.id = id /\ albumsWrite(u, a)}
  IN [ok |-> TRUE,
      rows |-> (albums \ hit) \cup {[a EXCEPT !.share_token = anextId] : a \in hit}]

CreateAlbum(u) ==
  /\ anextId <= MaxAid
  /\ albums' = createAlbum(u).rows
  /\ anextId' = IF createAlbum(u).ok THEN anextId + 1 ELSE anextId
  /\ UNCHANGED <<famVars, reactVars, commentVars, gestureVars, clientVars>>

UpdateAlbum(u, id, updates) ==
  /\ albums' = updateAlbum(u, id, updates).rows
  /\ UNCHANGED <<anextId, famVars, reactVars, commentVars, gestureVars, clientVars>>

DeleteAlbum(u, id) ==
  /\ albums' = deleteAlbum(u, id).rows
  /\ UNCHANGED <<anextId, famVars, reactVars, commentVars, gestureVars, clientVars>>

RegenerateShareToken(u, id) ==
  /\ anextId <= MaxAid
  /\ albums' = regenerateShareToken(u, id).rows
  /\ anextId' = anextId + 1
  /\ UNCHANGED <<famVars, reactVars, commentVars, gestureVars, clientVars>>

\* a visitor opens /shared/<token>: a read
GetAlbumByToken(u, token, dbOk) ==
  /\ getAlbumByToken(u, token, dbOk).thrown \in BOOLEAN
  /\ UNCHANGED vars

\* the clock moves on
Tick ==
  /\ now < MaxNow
  /\ now' = now + 1
  /\ UNCHANGED <<family_members, profiles, nextId, req>>
  /\ UNCHANGED <<reactVars, commentVars, gestureVars, albumVars, clientVars>>

\* "ua" is an active member, "ub" holds a session without a membership
InitAlbums ==
  /\ InitClientIdle
  /\ family_members = {[id |-> 1, email |-> EmailA, status |-> "active",
                        user_id |-> "ua", invited_by |-> NULL,
                        accepted_at |-> 1, invitation_token |-> 1]}
  /\ profiles = {[id |-> "ua", email |-> EmailA]}
  /\ nextId = 3
  /\ now = 1
  /\ req = EmptyBag
  /\ InitReactIdle
  /\ policyDraft \in {"restrictive", "simplified"}
  /\ InitCommentsIdle
  /\ InitGestureIdle
  /\ InitAlbumsIdle

ShareTokens == 1..MaxAid

NextAlbums ==
  \/ \E u \in Callers : CreateAlbum(u)
  \/ \E u \in Callers, id \in 1..MaxAid, updates \in AlbumUpdates :
       UpdateAlbum(u, id, updates)
  \/ \E u \in Callers, id \in 1..MaxAid : DeleteAlbum(u, id)
  \/ \E u \in Callers, id \in 1..MaxAid : RegenerateShareToken(u, id)
  \/ \E u \in Callers, token \in ShareTokens, dbOk \in BOOLEAN :
       GetAlbumByToken(u, token, dbOk)
  \/ Tick

SpecAlbums == InitAlbums /\ [][NextAlbums]_vars

-----------------------------------------------------------------------------
(* Who may write: the check the application code makes before it writes,    *)
(* and the check the row-level policies of the deployed draft make.         *)

ProtectedOps == {"family", "reaction"}

\* the family routes ask for an active member; reactions.ts asks for a session
HandlerPermits(op, u) ==
  IF op = "family" THEN u /= NoUser /\ isActiveMember(u)
  ELSE u /= NoUser

PolicyPermits(op, u) ==
  IF op = "family" THEN familyMembersWrite(u)
  ELSE reactionsWrite(u, u)

-----------------------------------------------------------------------------
(* Claims about the membership handlers (SpecFamily) *)

HasRecord(e, statuses) ==
  \E m \in family_members : m.email = toLowerCase(e) /\ m.status \in statuses

OwnRows(c) == {m \in family_members : m.user_id = c}

ProfilesOf(P, u) == {x \in P : x.id = u}

\* C1: whenever a record with status invited or active exists for the
\* lowercased address, an invite of that address by an active member is
\* answered with the duplicate answer (and so goes on to no insert).
C1_InviteConflict ==
  \A c \in Identities, e \in InviteInputs :
    (isActiveMember(c) /\ HasRecord(e, {"invited", "active"}))
    => InviteCheckAnswer(c, e).body \in {"AlreadyInvited", "AlreadyActive"}

\* C2 as stated: a DELETE whose target row carries the caller's own identity
\* is answered with the self-removal refusal and the row stays, whatever the
\* status of the row.
C2_AlwaysSelfRemovalAnswer ==
  \A c \in Identities : \A m \in OwnRows(c) : \A ok \in BOOLEAN :
    LET res == DeleteResult(c, m.id, ok) IN
    /\ res.rows = family_members
    /\ res.answer.body = "SelfRemoval"

\* C2 amended: a DELETE whose target row carries the caller's own identity
\* deletes nothing, whatever the status of the row; the answer is the
\* self-removal refusal (400) when the caller is an active member and the
\* gate's AccessDenied (403) when the caller is not.
C2_SelfRemovalRefused ==
  \A c \in Identities : \A m \in OwnRows(c) : \A ok \in BOOLEAN :
    LET res == DeleteResult(c, m.id, ok) IN
    /\ res.rows = family_members
    /\ res.answer = IF isActiveMember(c) THEN Answer(400, "SelfRemoval", "none")
                    ELSE Answer(403, "AccessDenied", "none")

\* C2 witness: an active member owns a second row that is not active, and the
\* DELETE of that row is refused as a self-removal
C2_Witness ==
  \E c \in Identities : \E m \in OwnRows(c) :
    /\ isActiveMember(c)
    /\ m.status /= "active"
    /\ DeleteResult(c, m.id, TRUE).answer.body = "SelfRemoval"

\* C3: once the record of an address is active, a further login for that
\* address (auth callback, or signup route answering 200) leaves every active
\* record of the address as it is and leaves exactly one Profile for the
\* identity.
C3_AcceptIdempotent ==
  \A e \in AuthEmails : HasRecord(e, {"active"}) =>
    \A a \in BOOLEAN, b \in BOOLEAN :
      LET cb == CallbackResult(e, a, b)
          su == SignupResult(UserOf(e), a, b)
          same(res) ==
            /\ \A m \in family_members :
                 (m.email = e /\ m.status = "active") => m \in res.rows
            /\ Cardinality(ProfilesOf(res.profiles, UserOf(e))) = 1
      IN /\ same(cb)
         /\ su.answer.status = 200 => same(su)

\* C9: when two invite requests for one lowercased address have both passed
\* the existence check and one of them inserts, the insert of the other is
\* not answered 201.
C9_ConcurrentInvitesSerialized ==
  [][\A rq \in BagToSet(req), other \in BagToSet(req) :
       (/\ toLowerCase(other.email) = toLowerCase(rq.email)
        /\ InviteInsert(rq, "none")
        /\ BagIn(other, req'))
       => (InviteInsertResult(other, "none").answer.status /= 201)']_vars

\* C10: family_members never holds two records whose addresses are equal
\* after lowercasing.
C10_OneRecordPerEmail ==
  \A m1 \in family_members, m2 \in family_members :
    toLowerCase(m1.email) = toLowerCase(m2.email) => m1.id = m2.id

-----------------------------------------------------------------------------
(* Claims about the reaction calls (SpecReactions) *)

\* C4: for a user the policies let react, with no reaction on the photo, a
\* call with emoji e returns the stored reaction with emoji e, and a second
\* call with e right after it signals REACTION_REMOVED and leaves the pair
\* with no reaction (the table as it was before the first call).
C4_ToggleLaw ==
  \A u \in ReactUsers, p \in Photos, e \in Emojis :
    (rlsMember(u) /\ RowsOf(reactions, p, u) = {}) =>
      LET first == addOrUpdateReaction(reactions, rnextId, u, p, e)
          second == addOrUpdateReaction(first.rows, rnextId + 1, u, p, e)
      IN /\ first.outcome = "set"
         /\ \E x \in RowsOf(first.rows, p, u) : x.emoji = e
         /\ second.outcome = "REACTION_REMOVED"
         /\ RowsOf(second.rows, p, u) = {}
         /\ second.rows = reactions

\* C4 witness: the second call of a toggle has read the reaction the first
\* call stored and is about to remove it
C4_Witness ==
  \E c \in CallIds :
    /\ call[c].pc = "read"
    /\ rlsMember(call[c].user)
    /\ call[c].existing.emoji = call[c].emoji
    /\ \E x \in RowsOf(reactions, call[c].photo, call[c].user) :
         x.id = call[c].existing.id

\* C5: the reactions table never holds two rows for one (photo, user) pair.
C5_OneReactionPerPair ==
  \A p \in Photos, u \in ReactUsers : Cardinality(RowsOf(reactions, p, u)) <= 1

\* C5 witness: a call read "no reaction", another call on the same pair has
\* inserted since, and the first is still to attempt its own insert
C5_Witness ==
  \E c \in CallIds :
    /\ call[c].pc = "read"
    /\ call[c].existing = NoReaction
    /\ RowsOf(reactions, call[c].photo, call[c].user) /= {}

\* C6: for a user the policies let react whose reaction on the photo is e1, a
\* call with another emoji e2 returns normally ("set"), leaves exactly one row
\* for the pair, with emoji e2, and leaves every other row as it was.
C6_Replace ==
  \A u \in ReactUsers, p \in Photos, e2 \in Emojis :
    LET cur == RowsOf(reactions, p, u) IN
    (rlsMember(u) /\ cur /= {} /\ \A x \in cur : x.emoji /= e2) =>
      LET res == addOrUpdateReaction(reactions, rnextId, u, p, e2) IN
      /\ res.outcome = "set"
      /\ Cardinality(RowsOf(res.rows, p, u)) = 1
      /\ \A x \in RowsOf(res.rows, p, u) : x.emoji = e2
      /\ res.rows \ RowsOf(res.rows, p, u) = reactions \ cur

\* C6 witness: a call has read a reaction with another emoji, while the same
\* user also has a reaction on the other photo
C6_Witness ==
  \E c \in CallIds :
    /\ call[c].pc = "read"
    /\ call[c].existing.id /= 0
    /\ call[c].existing.emoji /= call[c].emoji
    /\ \E x \in reactions : x.user_id = call[c].user /\ x.photo_id /= call[c].photo

\* C7: for a caller who is not an active member the protected operations
\* change nothing and fail: the family list with 401 / 403, the reaction calls
\* with an error.
C7_OnlyActiveMembersProceed ==
  \A u \in ReactUsers : ~isActiveMember(u) =>
    /\ FamilyGetAnswer(u).status = IF u = NoUser THEN 401 ELSE 403
    /\ \A p \in Photos :
         /\ removeReaction(reactions, u, p).rows = reactions
         /\ \A e \in Emojis :
              LET res == addOrUpdateReaction(reactions, rnextId, u, p, e) IN
              /\ res.rows = reactions
              /\ res.outcome \in {"NotAuthenticated", "error"}

\* C8: for every caller and every protected operation the application code
\* permits the write iff the row-level policies permit it, and both are the
\* same as isActiveMember.
C8_ChecksAgree ==
  \A u \in ReactUsers, op \in ProtectedOps :
    /\ HandlerPermits(op, u) = PolicyPermits(op, u)
    /\ PolicyPermits(op, u) = isActiveMember(u)

-----------------------------------------------------------------------------
(* Claims about the accept on login (SpecFamily) *)

\* everything the accept writes is there: the invited row of the address is
\* active for the identity with accepted_at set, and the identity has a Profile
AcceptApplied(res, id, u) ==
  /\ \E m \in res.rows :
       /\ m.id = id /\ m.user_id = u /\ m.status = "active"
       /\ m.accepted_at /= NullTime
  /\ ProfilesOf(res.profiles, u) /= {}

\* nothing of it is there
AcceptNotApplied(res) ==
  res.rows = family_members /\ res.profiles = profiles

\* C11: for an address with an invited record, whatever fails, the auth
\* callback and the signup route either apply the whole accept (row active for
\* the identity, accepted_at set, Profile present) or none of it.
C11_AcceptAllOrNothing ==
  \A e \in AuthEmails :
    LET invitation == invitationFor(e)
        u == UserOf(e)
    IN invitation.error = "none" =>
         \A a \in BOOLEAN, b \in BOOLEAN :
           LET cb == CallbackResult(e, a, b)
               su == SignupResult(u, a, b)
               id == TheRow(invitation.rows).id
           IN /\ AcceptApplied(cb, id, u) \/ AcceptNotApplied(cb)
              /\ AcceptApplied(su, id, u) \/ AcceptNotApplied(su)

-----------------------------------------------------------------------------
(* Claims about the invite (SpecFamily) *)

\* C12: for a request that passed the checks, an insert that does not fail
\* adds exactly one row: email the lowercased address, status invited, user_id
\* null, invited_by the caller, a token no other row has; it leaves every
\* other row as it was and answers 201 with the summary of that row.
C12_InviteAddsOneRow ==
  \A rq \in BagToSet(req), fault \in InviteFaults \ {"insert"} :
    LET res == InviteInsertResult(rq, fault)
        added == res.rows \ family_members
    IN /\ Cardinality(added) = 1
       /\ family_members \subseteq res.rows
       /\ res.answer.status = 201
       /\ \A m \in added :
            /\ m.email = toLowerCase(rq.email)
            /\ \A i \in DOMAIN m.email : m.email[i] \notin {"A", "B"}
            /\ m.status = "invited"
            /\ m.user_id = NULL
            /\ m.invited_by = rq.caller
            /\ \A x \in family_members :
                 x.invitation_token /= m.invitation_token /\ x.id /= m.id
            /\ res.summary = [id |-> m.id, email |-> m.email,
                              invitation_token |-> m.invitation_token,
                              status |-> "invited"]

\* C12 witness: the invite of "B@x.y" by ua has inserted its row while
\* another request is still between its check and its insert
C12_Witness ==
  /\ \E m \in family_members :
       m.invited_by = "ua" /\ m.email = EmailB /\ m.status = "invited"
  /\ req /= EmptyBag

-----------------------------------------------------------------------------
(* Claims about a login without an invitation (SpecReactions) *)

\* C13: for an identity that has no invited record for its address (and is
\* not an active member already), the auth callback completes the login and
\* writes nothing, and every protected action of the identity is rejected:
\* the family routes answer 403 and the reaction calls change nothing.
C13_UninvitedLoginGetsNoAccess ==
  \A e \in AuthEmails :
    LET u == UserOf(e) IN
    (invitationFor(e).error /= "none" /\ ~isActiveMember(u)) =>
      /\ \A a \in BOOLEAN, b \in BOOLEAN :
           LET cb == CallbackResult(e, a, b) IN
           /\ cb.answer.status = 302
           /\ cb.rows = family_members
           /\ cb.profiles = profiles
      /\ FamilyGetAnswer(u).status = 403
      /\ \A id \in 1..MaxId : DeleteResult(u, id, TRUE).answer.status = 403
      /\ \A x \in InviteInputs : InviteCheckAnswer(u, x).status = 403
      /\ \A p \in Photos, em \in Emojis :
           addOrUpdateReaction(reactions, rnextId, u, p, em).rows = reactions

-----------------------------------------------------------------------------
(* Claims about the sign-in (SpecFamily) *)

\* C14: signInWithMagicLink sends a magic link for an address only if a
\* record with status invited or active exists for the lowercased address at
\* the time of its check; otherwise it fails with NOT_INVITED (or with the
\* verification error when the rpc failed) and sends nothing.
C14_LinkOnlyForInvited ==
  \A email \in InviteInputs, fault \in SignInFaults :
    LET res == signInWithMagicLink(email, fault) IN
    /\ res.link /= <<>> => (res.success /\ HasRecord(email, {"invited", "active"}))
    /\ ~HasRecord(email, {"invited", "active"}) =>
         /\ ~res.success
         /\ res.link = <<>>
         /\ res.code = IF fault = "rpc" THEN "VerifyFailed" ELSE "NOT_INVITED"

\* C14 witness: "B@x.y" has an invited record (stored lowercased) next to an
\* inactive one, and the sign-in with the mixed-case address sends the link
C14_Witness ==
  /\ HasRecord(<<"B", "@", "x", ".", "y">>, {"invited"})
  /\ HasRecord(<<"B", "@", "x", ".", "y">>, {"inactive"})
  /\ signInWithMagicLink(<<"B", "@", "x", ".", "y">>, "none").link = EmailB

-----------------------------------------------------------------------------
(* Claims about removal (SpecFamily) *)

\* the identity has no access: the sign-in for its address is refused, the
\* family routes turn it away, and its reaction calls change nothing
NoAccess(email, u) ==
  /\ ~signInWithMagicLink(email, "none").success
  /\ FamilyGetAnswer(u).status \in {401, 403}
  /\ \A x \in InviteInputs : InviteCheckAnswer(u, x).status \in {401, 403}
  /\ \A p \in Photos, em \in Emojis :
       addOrUpdateReaction(reactions, rnextId, u, p, em).rows = reactions

\* C15: right after the DELETE of an active member's row has succeeded (and
\* before any new invitation is inserted), the member has no access.
C15_RemovedMemberLosesAccess ==
  [][\A m \in family_members :
       (m.status = "active" /\ family_members' = family_members \ {m})
       => NoAccess(m.email, m.user_id)']_vars

\* C16: every row that appears in family_members has status invited and was
\* inserted for a request that passed the active-member check: its invited_by
\* is the caller of a checked invite request for the row's address.
C16_RowsCreatedByActiveMembers ==
  [][\A m \in family_members' :
       (\A k \in family_members : k.id /= m.id)
       => /\ m.status = "invited"
          /\ \E rq \in BagToSet(req) :
               rq.caller = m.invited_by /\ toLowerCase(rq.email) = m.email]_vars

-----------------------------------------------------------------------------
(* Claims about comments (SpecComments) *)

\* C17: updateComment or deleteComment called by a user who is not the
\* comment's author leaves the comments table as it was.
C17_OnlyAuthorChanges ==
  \A c \in comments, u \in Callers :
    u /= c.user_id =>
      /\ \A text \in CommentTexts : updateComment(comments, u, c.id, text).rows = comments
      /\ deleteComment(comments, u, c.id).rows = comments

\* "ua" and "ub" each have a comment; "ua" reaches for the one of "ub", which
\* "ub" itself can change and delete
C17_Witness ==
  \E c \in comments :
    /\ c.user_id = "ub"
    /\ \E d \in comments : d.user_id = "ua"
    /\ updateComment(comments, "ua", c.id, "yo").rows = comments
    /\ ~updateComment(comments, "ua", c.id, "yo").ok
    /\ updateComment(comments, "ub", c.id, "yo").rows /= comments
    /\ deleteComment(comments, "ub", c.id).rows = comments \ {c}
    /\ c.updated_at = "new Date()"

-----------------------------------------------------------------------------
(* Claims about the gesture hooks (SpecGesture) *)

\* the single callbacks the armed timer will deliver if no event comes
singlesToCome(h) ==
  IF h.clickTimeout = "always" \/ (h.clickTimeout = "ifOne" /\ h.clickCount = 1)
    THEN 1 ELSE 0

singleTapsToCome(t) == IF t.clickTimer /\ t.clickCount = 1 THEN 1 ELSE 0

Singles(f) == IF f = "single" THEN 1 ELSE 0

\* a finger is down that the hook has not seen move beyond the threshold
stillTouch(h) == h.touchInfo /= NoTouch /\ ~h.touchInfo[1].moved /\ ~h.scrolling

\* a double leaves no timer and no counted click behind
DoubleOnly(r) ==
  /\ r.fired = "double"
  /\ r.refs.clickCount = 0

C19_OutOfWindowTapsAreTwoSingles ==
  /\ (hook = "useClickHandler" /\ ch.firstClickTime >= 400)
     => /\ handleClick(ch).fired /= "double"
        /\ Singles(handleClick(ch).fired) + singlesToCome(handleClick(ch).refs)
             = singlesToCome(ch) + 1
  /\ (hook = "useDoubleTap" /\ (dt.lastTap = NoTap \/ dt.lastTap[1].time >= 400))
     => \A e \in TapEvents :
          /\ handleTap(dt, e).fired /= "double"
          /\ Singles(handleTap(dt, e).fired) + singleTapsToCome(handleTap(dt, e).refs)
               = singleTapsToCome(dt) + 1

\* C20: the release of a touch that has been further than the threshold from
\* its start point fires nothing and leaves count, timer and time stamp alone.
C20_MovedTouchSuppressed ==
  (hook = "useClickHandler" /\ strayed /\ ch.touchInfo /= NoTouch)
  => handleTouchEnd(ch) = Ran([ch EXCEPT !.touchInfo = NoTouch], "none")

\* C21: once the view is off the page, or cleanup() has run, no timer is left
\* whose callback would call the single callback.
C21_NoSingleAfterUnmount ==
  /\ singlesToCome(cleanup(ch)) = 0
  /\ ~mounted =>
       /\ ch.clickTimeout /= NoTimer => clickTimeoutCallback(ch).fired /= "single"
       /\ dt.clickTimer => clickTimerCallback(dt).fired /= "single"

-----------------------------------------------------------------------------
(* More claims about the membership handlers (SpecFamily) *)

MailFaults == {"mail", "throw", "nokey"}

\* C22: when the e-mail cannot be sent (provider error, exception, no API
\* key) the invite request that passed its check is still answered 201 with
\* the summary of the row, and the invited row is in the table.
C22_MailFailureNotFatal ==
  \A c \in Identities, e \in InviteInputs, fault \in MailFaults :
    BagIn(Checked(c, e), req) =>
      LET r == InviteInsertResult(Checked(c, e), fault)
          row == NewInvitation(nextId, e, c)
      IN /\ r.answer.status = 201
         /\ r.answer.mail /= "sent"
         /\ r.summary = InvitationResponse(row)
         /\ row \in r.rows /\ row.status = "invited"
         /\ r.rows \ {row} = family_members

\* a checked request is waiting and the provider fails on it
C22_Witness ==
  \E c \in Identities, e \in InviteInputs :
    /\ BagIn(Checked(c, e), req)
    /\ nextId <= MaxId
    /\ InviteInsertResult(Checked(c, e), "mail").answer = Answer(201, "Invited", "failed")
    /\ InviteInsertResult(Checked(c, e), "throw").rows /= family_members
    /\ InviteInsertResult(Checked(c, e), "nokey").answer.mail = "nokey"

-----------------------------------------------------------------------------
(* Claims about shared albums (SpecAlbums) *)

\* the token names a public album that has not expired
Resolvable(token, a) ==
  /\ a \in albums
  /\ a.share_token = token
  /\ a.is_public
  /\ (a.expires_at = NullTime \/ a.expires_at >= now)

\* C23: getAlbumByToken returns an album only if it carries the token, is
\* public and is not expired, and then it returns that album; for an unknown
\* token, a private album or an expired one it returns null.
C23_TokenResolvesOnlyPublicUnexpired ==
  \A u \in Callers, token \in ShareTokens, dbOk \in BOOLEAN :
    LET r == getAlbumByToken(u, token, dbOk) IN
    /\ r.album /= <<>> => Resolvable(token, r.album[1])
    /\ (dbOk /\ ~\E a \in albums : Resolvable(token, a)) => r = NotFound

\* one album still resolves for the member while the other, made private or
\* past its expiry, does not resolve for anyone
C23_Witness ==
  \E a \in albums, b \in albums :
    /\ getAlbumByToken("ua", a.share_token, TRUE) = Found(a)
    /\ ~b.is_public \/ (b.expires_at /= NullTime /\ b.expires_at < now)
    /\ \A u \in Callers : getAlbumByToken(u, b.share_token, TRUE) = NotFound

\* the second position is the threshold or more away from the first
farApart(p, q) == distance2(p, q) >= Square(threshold)

\* C24: a click or tap handled less than 300 ms after the one before it, at a
\* point 10 px or more away from it, does not fire the double callback.
C24_FarTapsAreNotDouble ==
  /\ (hook = "useClickHandler" /\ ch.clickCount = 1 /\ ch.firstClickTime < delay)
     => \A at \in Points : farApart(at, tapAt) => handleClick(ch).fired /= "double"
  /\ (hook = "useDoubleTap" /\ dt.lastTap /= NoTap /\ dt.lastTap[1].time < delay)
     => \A e \in TapEvents :
          farApart(e.at, tapAt) => handleTap(dt, e).fired /= "double"

\* C25: the clicks and taps still waiting for a callback are exactly those the
\* armed timer will answer when the delay has passed without further input:
\* none is left over, and none is answered twice.
C25_EveryTapGetsOneOutcome ==
  /\ waiting >= 0
  /\ hook = "useClickHandler" => waiting = singlesToCome(ch)
  /\ hook = "useDoubleTap" => waiting = singleTapsToCome(dt)

-----------------------------------------------------------------------------
(* More claims about the reaction calls (SpecReactions) *)

EmojisOf(R, p, u) == {x.emoji : x \in RowsOf(R, p, u)}

\* the table after the write of call c and then the write of call d
WritesInOrder(c, d) ==
  LET k == call[c]
      l == call[d]
      w == WriteResult(reactions, rnextId, k.user, k.photo, k.emoji, k.existing)
  IN WriteResult(w.rows, rnextId + 1, l.user, l.photo, l.emoji, l.existing).rows

\* the table after the whole call c and then the whole call d
CallsInOrder(c, d) ==
  LET k == call[c]
      l == call[d]
      s == addOrUpdateReaction(reactions, rnextId, k.user, k.photo, k.emoji)
  IN addOrUpdateReaction(s.rows, rnextId + 1, l.user, l.photo, l.emoji).rows

\* both calls have read the table as it is now and neither has written
BothHaveRead(c, d) ==
  /\ c /= d
  /\ call[c].pc = "read" /\ call[d].pc = "read"
  /\ call[c].user = call[d].user /\ call[c].photo = call[d].photo
  /\ rlsMember(call[c].user)
  /\ call[c].existing = ReadExisting(reactions, call[c].user, call[c].photo)
  /\ call[d].existing = call[c].existing

\* C26: two calls of one user on one photo that have both read before either
\* writes end in a state that neither order of the whole calls gives: from no
\* reaction, two calls with e leave e where the calls in sequence leave none;
\* from e, a call with e and a call with e2, written in the order e2 then e,
\* leave none (the last write, the delete) where the sequences leave e2 or e.
C26_InterleavingNotSerial ==
  \A c \in CallIds, d \in CallIds :
    BothHaveRead(c, d) =>
      LET u == call[c].user
          p == call[c].photo
      IN /\ (call[c].existing = NoReaction /\ call[c].emoji = call[d].emoji)
            => /\ EmojisOf(WritesInOrder(c, d), p, u) = {call[c].emoji}
               /\ EmojisOf(CallsInOrder(c, d), p, u) = {}
               /\ EmojisOf(CallsInOrder(d, c), p, u) = {}
         /\ (call[c].existing.emoji = call[c].emoji /\ call[d].emoji /= call[c].emoji)
            => /\ EmojisOf(WritesInOrder(d, c), p, u) = {}
               /\ EmojisOf(CallsInOrder(c, d), p, u) = {call[d].emoji}
               /\ EmojisOf(CallsInOrder(d, c), p, u) = {call[c].emoji}

\* two calls with the same emoji have both read "no reaction"
C26_Witness ==
  /\ BothHaveRead(1, 2)
  /\ call[1].existing = NoReaction
  /\ call[1].emoji = call[2].emoji
  /\ EmojisOf(WritesInOrder(1, 2), call[1].photo, call[1].user) = {call[1].emoji}

-----------------------------------------------------------------------------
(* ReactionButton.tsx and PhotoModal.tsx : what the tab shows after a call   *)

\* the call's request did not get through: the data layer's error is thrown
\* and the table is as it was
reactionCall(dbOk, R, rid, u, p, e) ==
  IF dbOk THEN addOrUpdateReaction(R, rid, u, p, e) ELSE Outcome("error", R)

commentCall(dbOk, r, C) == IF dbOk THEN r ELSE CommentResult(FALSE, C)

\* getUserReaction: no user, no row and every error give null
getUserReaction(R, u, p) == IF u = NoUser THEN NoReaction ELSE ReadExisting(R, u, p)

\* loadComments: .select(...).eq('photo_id', photoId)
loadComments(C, u, p) == {c \in C : c.photo_id = p /\ rlsMember(u)}

\* what a handler leaves on the screen and the requests it has issued
Shown(v, calls) == [ui |-> v, requests |-> calls]

\* the row a successful addOrUpdateReaction returns
Returned(R, p, u) ==
  LET x == CHOOSE x \in RowsOf(R, p, u) : TRUE IN [id |-> x.id, emoji |-> x.emoji]

handleEmojiClick_clearOnError(v, r) ==
  Shown([v EXCEPT !.userReaction = NoReaction], <<"addOrUpdateReaction">>)

\* handleEmojiClick once addOrUpdateReaction has answered with r
handleEmojiClick(v, r) ==
  IF r.outcome = "set"
    THEN Shown([v EXCEPT !.userReaction = Returned(r.rows, v.photo, v.user)],
               <<"addOrUpdateReaction">>)
  ELSE IF r.outcome = "REACTION_REMOVED"
    THEN Shown([v EXCEPT !.userReaction = NoReaction], <<"addOrUpdateReaction">>)
  ELSE Shown(v, <<"addOrUpdateReaction">>)

\* setComments(prev => [...prev, newComment])
handleAddComment(v, new, r) ==
  IF r.ok THEN Shown([v EXCEPT !.comments = @ \cup {new}], <<"addComment">>)
  ELSE Shown(v, <<"addComment">>)

\* prev.map(comment => comment.id === commentId ? updatedComment : comment)
handleEditComment(v, id, r) ==
  IF r.ok
    THEN Shown([v EXCEPT !.comments =
                  {IF c.id = id THEN CHOOSE x \in r.rows : x.id = id ELSE c : c \in @}],
               <<"updateComment">>)
  ELSE Shown(v, <<"updateComment">>)

\* prev.filter(comment => comment.id !== commentId)
handleDeleteComment(v, id, r) ==
  IF r.ok THEN Shown([v EXCEPT !.comments = {c \in @ : c.id /= id}], <<"deleteComment">>)
  ELSE Shown(v, <<"deleteComment">>)

\* the mutation answered with an error other than the removal signal
reactionFailed(r) == r.outcome \notin {"set", "REACTION_REMOVED"}

\* useEffect(() => { loadUserReaction() }, [loadUserReaction])
LoadUserReaction ==
  /\ ui' = [ui EXCEPT !.userReaction = getUserReaction(reactions, ui.user, ui.photo)]
  /\ UNCHANGED <<famVars, reactVars, commentVars, gestureVars, albumVars>>

\* loadPhotoComments: a failed load empties the list
LoadPhotoComments(dbOk) ==
  /\ ui' = [ui EXCEPT !.comments = IF dbOk THEN loadComments(comments, ui.user, ui.photo)
                                   ELSE {}]
  /\ UNCHANGED <<famVars, reactVars, commentVars, gestureVars, albumVars>>

EmojiClick(e, dbOk) ==
  LET r == reactionCall(dbOk, reactions, rnextId, ui.user, ui.photo, e) IN
  /\ RowsOf(reactions, ui.photo, ui.user) = {} => rnextId <= MaxRid
  /\ reactions' = r.rows
  /\ rnextId' = IF r.rows \ reactions /= {} /\ Cardinality(r.rows) > Cardinality(reactions)
                  THEN rnextId + 1 ELSE rnextId
  /\ ui' = [handleEmojiClick(ui, r).ui EXCEPT !.failed = reactionFailed(r)]
  /\ UNCHANGED <<call, policyDraft>>
  /\ UNCHANGED <<famVars, commentVars, gestureVars, albumVars>>

AddCommentClick(text, dbOk) ==
  LET r == commentCall(dbOk, addComment(comments, cnextId, ui.user, ui.photo, text),
                       comments)
  IN
  /\ cnextId <= MaxCid
  /\ comments' = r.rows
  /\ cnextId' = IF r.ok THEN cnextId + 1 ELSE cnextId
  /\ ui' = [handleAddComment(ui, NewComment(cnextId, ui.photo, ui.user, text), r).ui
              EXCEPT !.failed = ~r.ok]
  /\ UNCHANGED <<famVars, reactVars, gestureVars, albumVars>>

EditCommentClick(id, text, dbOk) ==
  LET r == commentCall(dbOk, updateComment(comments, ui.user, id, text), comments) IN
  /\ comments' = r.rows
  /\ ui' = [handleEditComment(ui, id, r).ui EXCEPT !.failed = ~r.ok]
  /\ UNCHANGED <<cnextId, famVars, reactVars, gestureVars, albumVars>>

DeleteCommentClick(id, dbOk) ==
  LET r == commentCall(dbOk, deleteComment(comments, ui.user, id), comments) IN
  /\ comments' = r.rows
  /\ ui' = [handleDeleteComment(ui, id, r).ui EXCEPT !.failed = ~r.ok]
  /\ UNCHANGED <<cnextId, famVars, reactVars, gestureVars, albumVars>>

\* "ua" is an active member, "ub" holds a session without a membership; the
\* tab belongs to either of them or to nobody
InitClient ==
  /\ family_members = {[id |-> 1, email |-> EmailA, status |-> "active",
                        user_id |-> "ua", invited_by |-> NULL,
                        accepted_at |-> 2, invitation_token |-> 1]}
  /\ profiles = {[id |-> "ua", email |-> EmailA]}
  /\ nextId = 3
  /\ now = 3
  /\ req = EmptyBag
  /\ InitReactIdle
  /\ policyDraft \in {"restrictive", "simplified"}
  /\ InitCommentsIdle
  /\ InitGestureIdle
  /\ InitAlbumsIdle
  /\ \E u \in ReactUsers, p \in Photos : ui = [NoTab EXCEPT !.user = u, !.photo = p]

NextClient ==
  \/ LoadUserReaction
  \/ \E dbOk \in BOOLEAN : LoadPhotoComments(dbOk)
  \/ \E e \in Emojis, dbOk \in BOOLEAN : EmojiClick(e, dbOk)
  \/ \E text \in CommentTexts, dbOk \in BOOLEAN : AddCommentClick(text, dbOk)
  \/ \E id \in 1..MaxCid, text \in CommentTexts, dbOk \in BOOLEAN :
       EditCommentClick(id, text, dbOk)
  \/ \E id \in 1..MaxCid, dbOk \in BOOLEAN : DeleteCommentClick(id, dbOk)

SpecClient == InitClient /\ [][NextClient]_vars

\* C27: when a reaction or comment mutation of the tab fails with anything
\* but the removal signal, the tab shows what it showed before
\* (userReaction and comments alike) and the handler has issued the one
\* request and no second one.
C27_FailureLeavesDisplay ==
  \A dbOk \in BOOLEAN :
    /\ \A e \in Emojis :
         LET r == reactionCall(dbOk, reactions, rnextId, ui.user, ui.photo, e) IN
         reactionFailed(r) =>
           /\ r.rows = reactions
           /\ handleEmojiClick(ui, r) = Shown(ui, <<"addOrUpdateReaction">>)
    /\ \A text \in CommentTexts :
         LET r == commentCall(dbOk, addComment(comments, cnextId, ui.user, ui.photo, text),
                              comments)
         IN ~r.ok =>
              handleAddComment(ui, NewComment(cnextId, ui.photo, ui.user, text), r)
                = Shown(ui, <<"addComment">>)
    /\ \A id \in 1..MaxCid :
         /\ \A text \in CommentTexts :
              LET r == commentCall(dbOk, updateComment(comments, ui.user, id, text),
                                   comments)
              IN ~r.ok => handleEditComment(ui, id, r) = Shown(ui, <<"updateComment">>)
         /\ LET r == commentCall(dbOk, deleteComment(comments, ui.user, id), comments)
            IN ~r.ok => handleDeleteComment(ui, id, r) = Shown(ui, <<"deleteComment">>)

\* a mutation has just failed in a tab that shows a reaction and a comment
C27_Witness ==
  /\ ui.failed
  /\ ui.userReaction /= NoReaction
  /\ ui.comments /= {}

\* C28 as stated: every active row has a user_id and an accepted_at, every
\* invited row has neither.
C28_ActiveLinkedInvitedUnlinked ==
  \A m \in family_members :
    /\ m.status = "active" => m.user_id /= NULL /\ m.accepted_at /= NullTime
    /\ m.status = "invited" => m.user_id = NULL /\ m.accepted_at = NullTime

\* C28: every active row has a user_id, and an accepted_at unless it is a row
\* that was active before the invitation columns were added; every invited
\* row has neither a user_id nor an accepted_at.
C28_ActiveLinked ==
  \A m \in family_members :
    /\ m.status = "active" =>
         /\ m.user_id /= NULL
         /\ m.accepted_at /= NullTime \/ m = SeedLegacy("active")
    /\ m.status = "invited" => m.user_id = NULL /\ m.accepted_at = NullTime

\* an accepted invitation, an open one and a member from before the migration
C28_Witness ==
  /\ \E m \in family_members : m.status = "active" /\ m.accepted_at /= NullTime
  /\ \E m \in family_members : m.status = "invited" /\ m.invited_by /= NULL
  /\ SeedLegacy("active") \in family_members

\* the answers that turn a family request away
Refusals == {400, 401, 403, 404}

\* the caller has no active row
notMember(caller) ==
  caller = NoUser \/ ~\E m \in family_members : m.user_id = caller /\ m.status = "active"

\* what the next invite or delete request would be answered
RefusedInOrder ==
  /\ \A caller \in Callers, email \in InviteInputs :
       LET a == InviteCheckAnswer(caller, email) IN
       /\ a.status \in Refusals => a.mail = "none"
       /\ notMember(caller) => a.status \in {401, 403}
  /\ \A caller \in Callers, id \in 1..MaxId, dbOk \in BOOLEAN :
       LET d == DeleteResult(caller, id, dbOk) IN
       /\ d.answer.status \in Refusals =>
            d.rows = family_members /\ d.answer.mail = "none"
       /\ notMember(caller) => d.answer.status \in {401, 403}
  /\ \A caller \in Callers :
       notMember(caller) => FamilyGetAnswer(caller).status \in {401, 403}

\* a refused request as a step
RefusedStep ==
  \/ \E caller \in Callers, email \in InviteInputs :
       InviteCheck(caller, email) /\ InviteCheckAnswer(caller, email).status \in Refusals
  \/ \E caller \in Callers, id \in 1..MaxId, dbOk \in BOOLEAN :
       Delete(caller, id, dbOk) /\ DeleteResult(caller, id, dbOk).answer.status \in Refusals

\* C29: authentication, membership and validation come before any write: an
\* invite or delete request answered with 401, 403, 400 or 404 leaves
\* family_members and profiles as they were and sends no e-mail, and a
\* caller without an active row is answered with 401 or 403 only.
C29_RefusalsWriteNothing ==
  /\ []RefusedInOrder
  /\ [][RefusedStep => UNCHANGED <<family_members, profiles, nextId>>]_vars

\* after an invitation was written: a non-member holds a session while a
\* member can be answered with the duplicate, the self-removal and the
\* not-found refusals
C29_Witness ==
  /\ \E m \in family_members : m.invited_by /= NULL
  /\ \E caller \in Identities : notMember(caller)
  /\ \E caller \in Identities, email \in InviteInputs :
       /\ InviteCheckAnswer(caller, email).body = "AlreadyInvited"
       /\ \E id \in 1..MaxId : DeleteResult(caller, id, TRUE).answer.status = 404
       /\ \E id \in 1..MaxId : DeleteResult(caller, id, TRUE).answer.body = "SelfRemoval"

\* a timer is pending exactly when one click is counted
oneTimerPerClick(h) ==
  /\ h.clickCount \in {0, 1}
  /\ h.clickTimeout /= NoTimer <=> h.clickCount = 1

\* C30: useClickHandler holds a pending timer exactly when its click count
\* is 1 and the count is never above 1, now and after any click, touch end
\* or timer callback; a confirmed double leaves no timer, so no single
\* callback can follow it.
C30_OnePendingTimer ==
  /\ oneTimerPerClick(ch)
  /\ oneTimerPerClick(handleClick(ch).refs)
  /\ oneTimerPerClick(handleTouchEnd(ch).refs)
  /\ ch.clickTimeout /= NoTimer => oneTimerPerClick(clickTimeoutCallback(ch).refs)
  /\ \A r \in {handleClick(ch), handleTouchEnd(ch)} :
       r.fired = "double" => r.refs.clickTimeout = NoTimer /\ singlesToCome(r.refs) = 0

\* the timer of a late second click is pending and the next click, still in
\* the window, is a double
C30_Witness ==
  /\ hook = "useClickHandler"
  /\ ch.clickTimeout = "always"
  /\ ch.clickCount = 1
  /\ handleClick(ch).fired = "double"

====
